---- MODULE Spec2Model ----
(***************************************************************************)
(* Health & Fitness Dashboard: the record list held by the root component  *)
(* (src/src/App.js holds two variants of it: an in-memory one and one      *)
(* backed by localStorage), the add/edit form with its validation          *)
(* (src/src/components/HealthRecordForm.js) and the persistence effects.   *)
(*                                                                         *)
(* Representation of JavaScript values:                                    *)
(*  - a number is an integer count of 1/Scale units (fixed point), so that *)
(*    a non-integer such as 1.5 can be typed into the form;                *)
(*  - a string typed into an input is NoText ('') or Str(v), v the value   *)
(*    the text denotes (a number for a numeric input, a day number for a   *)
(*    date input; 'YYYY-MM-DD' <-> day number, day 1 = 2026-01-01);        *)
(*  - a time is in milliseconds since day 0 of that calendar, an ISO time  *)
(*    string is the time it denotes;                                       *)
(*  - an object is a function from its keys; null is Null.                 *)
(***************************************************************************)
EXTENDS Integers, Sequences, FiniteSets, TLC

VARIABLES
    variant,        \* "memory": App of App.js:25-160, "storage": App of App.js:194-390
    phase,          \* "start": constructed, effects not yet run; "running"; "crashed"
    records,        \* useState records
    showForm,       \* useState showForm (storage variant)
    editingRecord,  \* useState editingRecord
    formData,       \* HealthRecordForm useState formData (NoForm while not rendered)
    errors,         \* HealthRecordForm useState errors
    storage,        \* localStorage item 'healthRecords'
    now,            \* the clock read by Date.now() and new Date()
    console,        \* what the last step wrote to the console
    issued,         \* history: every id given to a record so far, in order
    seeded,         \* history: the session's list started from built-in or sample data
    ops,            \* history: number of list mutations performed
    stats           \* what the dashboard rendered (NotRendered where it is left out)

vars == <<variant, phase, records, showForm, editingRecord, formData, errors,
          storage, now, console, issued, seeded, ops, stats>>

------------------------------------------------------------------------------
(* Bounds of the model *)

\* list mutations explored in a session that starts from an empty list
MaxOps == 3
\* list mutations explored in a session that starts from built-in or sample data
MaxSeededOps == 1
\* milliseconds the clock may advance
MaxTicks == 1
\* fixed-point resolution of numbers: units per 1
Scale == 2
\* resolution of Math.random(): it returns k / RandomResolution
RandomResolution == 8000
\* longest record list handed to a dashboard on its own
MaxLen == 3

\* the pseudo-random streams Math.random() may follow (one stream, in which
\* every sample field meets the lowest, the middle and the highest draw)
RandomSeeds == {0}

------------------------------------------------------------------------------
(* Program constants *)

MsPerDay == 86400000
\* the day the clock shows when the program starts: 2026-01-12
StartDay == 12
SampleDays == 7
MaxSteps == 100000
MaxWorkoutDuration == 1440
MinHeartRate == 30
MaxHeartRate == 220
DailyStepGoal == 10000
DailyWorkoutGoal == 60
WeekDays == 7
LowHeartRate == 60
HighHeartRate == 100
ExcellentMinutes == 30
GoodMinutes == 20
FairMinutes == 10

------------------------------------------------------------------------------
(* JavaScript values *)

N(x) == x * Scale
IsInteger(v) == v % Scale = 0

Null == [null |-> TRUE]

NoText == <<>>
Str(v) == <<v>>
Truthy(s) == s # NoText
\* Number(text) of a numeric input's value
Number(s) == IF s = NoText THEN 0 ELSE s[1]
\* number.toString()
NumberToString(v) == Str(v)

\* { ...a, ...b }
Merge(a, b) ==
    [k \in (DOMAIN a) \cup (DOMAIN b) |-> IF k \in DOMAIN b THEN b[k] ELSE a[k]]

\* new Date().toISOString().split('T')[0]
TodayStr(t) == Str(t \div MsPerDay)
\* new Date(dateString) as a time value
DateMs(s) == s[1] * MsPerDay

\* The local clock of the browser.  setDate works in local time and
\* toISOString in UTC: going i days back keeps the local time of day, so the
\* instant moves by i days and by the change of the UTC offset in between.
\* A zone names the first number of days back that lies before the change
\* (0: no change in the week) and offset now minus offset then.
HourMs == MsPerDay \div 24
NoClockChange == [at |-> 0, shift |-> 0]
ClockChanges ==
    {NoClockChange} \cup
    {[at |-> a, shift |-> s] : a \in 1..(WeekDays - 1), s \in {-HourMs, HourMs}}

\* const date = new Date(t); date.setDate(date.getDate() - i)
DaysBack(t, i, zone) ==
    t - i * MsPerDay + (IF zone.at # 0 /\ i >= zone.at THEN zone.shift ELSE 0)

Log(msg, arg) == [msg |-> msg, arg |-> arg]

Ids(recs) == {recs[i].id : i \in 1..Len(recs)}

------------------------------------------------------------------------------
(* HealthRecordForm: form state, validation, submission *)

Fields == {"date", "steps", "workoutDuration", "heartRate"}

NoErrors == [k \in {} |-> ""]
\* the form's state while the form is not rendered
NoForm == [date |-> NoText, steps |-> NoText, workoutDuration |-> NoText,
           heartRate |-> NoText]

\* useState initial value of formData
InitialFormData(t) ==
    [date |-> TodayStr(t), steps |-> NoText, workoutDuration |-> NoText,
     heartRate |-> NoText]

\* the effect that fills the form from the record being edited
PopulateForm(record, t) ==
    [date |-> IF Truthy(record.date) THEN record.date ELSE TodayStr(t),
     steps |-> NumberToString(record.steps),
     workoutDuration |-> NumberToString(record.workoutDuration),
     heartRate |-> NumberToString(record.heartRate)]

DateError(fd) ==
    IF ~Truthy(fd.date) THEN <<"Date is required">> ELSE <<>>

StepsErrorUnbounded(fd) ==
    IF ~Truthy(fd.steps) THEN <<"Step count is required">>
    ELSE IF Number(fd.steps) < N(0) THEN <<"Steps cannot be negative">>
    ELSE <<>>

StepsError(fd) ==
    IF ~Truthy(fd.steps) THEN <<"Step count is required">>
    ELSE IF Number(fd.steps) < N(0) THEN <<"Steps cannot be negative">>
    ELSE IF Number(fd.steps) > N(MaxSteps) THEN <<"Steps value seems too high">>
    ELSE <<>>

WorkoutError(fd) ==
    IF ~Truthy(fd.workoutDuration) THEN <<"Workout duration is required">>
    ELSE IF Number(fd.workoutDuration) < N(0) THEN <<"Duration cannot be negative">>
    ELSE IF Number(fd.workoutDuration) > N(MaxWorkoutDuration)
         THEN <<"Duration cannot exceed 24 hours">>
    ELSE <<>>

HeartRateErrorExclusive(fd) ==
    IF ~Truthy(fd.heartRate) THEN <<"Heart rate is required">>
    ELSE IF Number(fd.heartRate) <= N(MinHeartRate)
            \/ Number(fd.heartRate) >= N(MaxHeartRate)
         THEN <<"Heart rate should be between 30-220 bpm">>
    ELSE <<>>

HeartRateError(fd) ==
    IF ~Truthy(fd.heartRate) THEN <<"Heart rate is required">>
    ELSE IF Number(fd.heartRate) < N(MinHeartRate)
            \/ Number(fd.heartRate) > N(MaxHeartRate)
         THEN <<"Heart rate should be between 30-220 bpm">>
    ELSE <<>>

\* validateForm: the newErrors object it builds (the form is valid iff it is empty)
ValidateForm(fd) ==
    LET e == [date |-> DateError(fd), steps |-> StepsError(fd),
              workoutDuration |-> WorkoutError(fd), heartRate |-> HeartRateError(fd)]
    IN  [k \in {f \in Fields : e[f] # <<>>} |-> e[k][1]]

\* the submittedData object of handleSubmit
SubmittedData(fd, record) ==
    Merge(IF record # Null THEN [id |-> record.id] ELSE [k \in {} |-> 0],
          [date |-> fd.date,
           steps |-> Number(fd.steps),
           workoutDuration |-> Number(fd.workoutDuration),
           heartRate |-> Number(fd.heartRate)])

------------------------------------------------------------------------------
(* The record list: sorting, updating, removing *)

\* the comparator (a, b) => new Date(b.date) - new Date(a.date)
CompareByDate(a, b) == DateMs(b.date) - DateMs(a.date)

\* x placed into a list already in comparator order, behind every element it
\* does not have to precede (Array.prototype.sort is stable)
RECURSIVE InsertByDate(_, _)
InsertByDate(sorted, x) ==
    IF sorted = <<>> THEN <<x>>
    ELSE IF CompareByDate(Head(sorted), x) <= 0
         THEN <<Head(sorted)>> \o InsertByDate(Tail(sorted), x)
         ELSE <<x>> \o sorted

RECURSIVE SortFrom(_, _)
SortFrom(sorted, rest) ==
    IF rest = <<>> THEN sorted
    ELSE SortFrom(InsertByDate(sorted, Head(rest)), Tail(rest))

Unsorted(recs) == recs

\* recs.sort((a, b) => new Date(b.date) - new Date(a.date))
SortByDateDesc(recs) == SortFrom(<<>>, recs)

\* prevRecords.filter(record => record.id !== recordId)
RECURSIVE RemoveId(_, _)
RemoveId(recs, recordId) ==
    IF recs = <<>> THEN <<>>
    ELSE IF Head(recs).id # recordId
         THEN <<Head(recs)>> \o RemoveId(Tail(recs), recordId)
         ELSE RemoveId(Tail(recs), recordId)

\* a list that keeps one record per date
AddedOnePerDate(prevRecords, newRecord) ==
    SortByDateDesc(
        Append(SelectSeq(prevRecords, LAMBDA r : r.date # newRecord.date),
               newRecord))

\* the updater of handleAddRecord
AddedRecords(prevRecords, newRecord) ==
    SortByDateDesc(Append(prevRecords, newRecord))

\* an edit that puts the submitted data in the record's place
ReplacedRecords(prevRecords, updatedRecord, t) ==
    SortByDateDesc(
        [i \in 1..Len(prevRecords) |->
            IF prevRecords[i].id = updatedRecord.id
            THEN Merge(updatedRecord, [updatedAt |-> t])
            ELSE prevRecords[i]])

UpsertedRecords(prevRecords, updatedRecord, t) ==
    IF updatedRecord.id \in Ids(prevRecords)
    THEN SortByDateDesc(
            [i \in 1..Len(prevRecords) |->
                IF prevRecords[i].id = updatedRecord.id
                THEN Merge(Merge(prevRecords[i], updatedRecord), [updatedAt |-> t])
                ELSE prevRecords[i]])
    ELSE SortByDateDesc(Append(prevRecords, Merge(updatedRecord, [updatedAt |-> t])))

\* the updater of handleEditRecord
EditedRecords(prevRecords, updatedRecord, t) ==
    SortByDateDesc(
        [i \in 1..Len(prevRecords) |->
            IF prevRecords[i].id = updatedRecord.id
            THEN Merge(Merge(prevRecords[i], updatedRecord), [updatedAt |-> t])
            ELSE prevRecords[i]])

------------------------------------------------------------------------------
(* localStorage and JSON *)

\* Values of localStorage.getItem('healthRecords'): no item, or a text, which
\* is described by the JSON document it holds.
NoItem == [doc |-> "none"]
InvalidText == [doc |-> "invalid"]      \* not JSON
NullText == [doc |-> "null"]            \* 'null'
NumberText == [doc |-> "number"]        \* '5'
ObjectText == [doc |-> "object"]        \* '{}'
EmptyText == [doc |-> "empty"]          \* ''

\* if (savedRecords): getItem returned a non-empty string
Saved(stored) == stored # NoItem /\ stored # EmptyText
ArrayText(items) == [doc |-> "array", items |-> items]

\* JSON.stringify of one value of a record: a finite number or a string is
\* written in full and read back as the same value
JsonValue(v) == v

\* JSON.stringify(records)
JsonStringify(recs) ==
    ArrayText([i \in 1..Len(recs) |->
                  [k \in DOMAIN recs[i] |-> JsonValue(recs[i][k])]])

\* JSON.parse(text): whether it returns, and the value
JsonParse(text) ==
    IF text.doc = "invalid" THEN [ok |-> FALSE]
    ELSE IF text.doc = "array"
         THEN [ok |-> TRUE, value |-> [type |-> "array", items |-> text.items]]
         ELSE [ok |-> TRUE, value |-> [type |-> text.doc]]

SaveEffectAlways(stored, recs) == JsonStringify(recs)

\* the save effect: what the item holds after it ran with records = recs
SaveEffect(stored, recs) ==
    IF Len(recs) > 0 THEN JsonStringify(recs) ELSE stored

SaveLog(recs) ==
    IF Len(recs) > 0
    THEN <<Log("[App] Saved records to localStorage:", Len(recs))>>
    ELSE <<>>

------------------------------------------------------------------------------
(* Sample data *)

\* the k-th call of Math.random() in stream seed, in 1/RandomResolution units
RandomDraws == <<0, RandomResolution \div 2, RandomResolution - 1>>
Random(seed, k) == RandomDraws[((seed + k + k \div 3) % 3) + 1]

\* Math.floor(Math.random() * range) + base
RandomInt(seed, k, range, base) ==
    (Random(seed, k) * range) \div RandomResolution + base

\* generateSampleData(), called at time t
GenerateSampleData(t, seed, zone) ==
    [j \in 1..SampleDays |->
        LET i == j - 1
            date == DaysBack(t, i, zone)
        IN  [id |-> t - i * MsPerDay,
             date |-> TodayStr(date),
             steps |-> N(RandomInt(seed, 3 * i, 8000, 4000)),
             workoutDuration |-> N(RandomInt(seed, 3 * i + 1, 60, 15)),
             heartRate |-> N(RandomInt(seed, 3 * i + 2, 30, 65)),
             createdAt |-> date]]

\* the built-in records of the in-memory App
BuiltInRecords ==
    << [id |-> 1, date |-> Str(10), steps |-> N(8500), workoutDuration |-> N(45),
        heartRate |-> N(72)],
       [id |-> 2, date |-> Str(11), steps |-> N(10200), workoutDuration |-> N(60),
        heartRate |-> N(75)],
       [id |-> 3, date |-> Str(12), steps |-> N(7800), workoutDuration |-> N(30),
        heartRate |-> N(70)] >>

\* the load effect: whether it calls setRecords, with what, and what it logs
LoadEffect(stored, t, seed, zone) ==
    IF ~Saved(stored)
    THEN [set |-> TRUE,
          value |-> [type |-> "array",
                     items |-> GenerateSampleData(t, seed, zone)],
          log |-> <<Log("[App] Loaded sample data for demonstration", 0)>>]
    ELSE LET parsed == JsonParse(stored)
         IN  IF ~parsed.ok
             THEN [set |-> FALSE,
                   log |-> <<Log("[App] Error parsing localStorage data:", 0)>>]
             ELSE IF parsed.value.type = "null"
                  \* setRecords(null) was called before null.length threw
                  THEN [set |-> TRUE, value |-> parsed.value,
                        log |-> <<Log("[App] Error parsing localStorage data:", 0)>>]
                  ELSE [set |-> TRUE, value |-> parsed.value,
                        log |-> <<Log("[App] Loaded records from localStorage:", 0)>>]

\* rendering the App with this records value throws (records.length of null,
\* records.reduce of a value that is no array)
RenderThrows(value) == value.type # "array"

------------------------------------------------------------------------------
(* Dashboards.  SummaryDashboard is the dashboard of the storage-backed App,
   DashboardSummary the one of the in-memory App.  A quotient the code leaves
   unrounded is kept as a fraction. *)

NaN == [nan |-> TRUE]
Infinity == [inf |-> TRUE]

RECURSIVE GCD(_, _)
GCD(a, b) == IF b = 0 THEN a ELSE GCD(b, a % b)

\* the fraction a / b in lowest terms, for a >= 0 and b > 0
Fraction(a, b) == [num |-> a \div GCD(a, b), den |-> b \div GCD(a, b)]

\* a / b, for a >= 0 and b >= 0
Divide(a, b) ==
    IF b # 0 THEN Fraction(a, b)
    ELSE IF a = 0 THEN NaN ELSE Infinity

\* q * 100
UncappedPercent(q) ==
    IF q = NaN \/ q = Infinity THEN q ELSE Fraction(q.num * 100, q.den)

\* Math.min(q * 100, 100)
CappedPercent(q) ==
    IF q = NaN THEN NaN
    ELSE IF q = Infinity \/ q.num >= q.den THEN Fraction(100, 1)
    ELSE Fraction(q.num * 100, q.den)

\* records.reduce((sum, r) => sum + Number(r[field]), 0)
SumOfDistinct(recs, field) ==
    LET values == {recs[i][field] : i \in 1..Len(recs)}
        f[S \in SUBSET values] ==
            IF S = {} THEN 0
            ELSE LET v == CHOOSE x \in S : TRUE IN v + f[S \ {v}]
    IN  f[values]

RECURSIVE SumField(_, _)
SumField(recs, field) ==
    IF recs = <<>> THEN 0
    ELSE recs[1][field] + SumField(Tail(recs), field)

\* Math.round(a / b) for b > 0: the nearest integer, a half going up
MathFloor(a, b) == a \div b

MathRound(a, b) == (2 * a + b) \div (2 * b)

\* the mean of a field, rounded, in the units of the records
RoundedMean(recs, field) ==
    N(MathRound(SumField(recs, field), Scale * Len(recs)))

\* getWeeklyData(records) at time t: oldest day first
GetWeeklyData(recs, t, zone) ==
    [k \in 1..WeekDays |->
        LET dateStr == TodayStr(DaysBack(t, WeekDays - k, zone))
            found == {i \in 1..Len(recs) : recs[i].date = dateStr}
            steps == IF found = {} THEN 0
                     ELSE recs[CHOOSE i \in found : \A j \in found : i <= j].steps
        IN  [date |-> dateStr,
             steps |-> steps,
             percentage |-> CappedPercent(Divide(steps, N(DailyStepGoal)))]]

\* SummaryDashboard: getHeartRateStatus, the rate in the units of the records
GetHeartRateStatus(heartRate) ==
    IF heartRate = 0 THEN "No data"
    ELSE IF heartRate < N(LowHeartRate) THEN "Resting"
    ELSE IF heartRate < N(HighHeartRate) THEN "Normal range"
    ELSE "Elevated"

\* SummaryDashboard: the zone markers that carry the class 'active'
HeartZones(avgHeartRate) ==
    [Rest |-> avgHeartRate < N(LowHeartRate),
     Normal |-> avgHeartRate >= N(LowHeartRate) /\ avgHeartRate < N(HighHeartRate),
     Elevated |-> avgHeartRate >= N(HighHeartRate)]

\* SummaryDashboard: the memoized stats
Stats(recs, t, zone) ==
    IF Len(recs) = 0
    THEN [totalSteps |-> 0, totalWorkout |-> 0, avgHeartRate |-> 0,
          recordCount |-> 0, avgDailySteps |-> 0, weeklyData |-> <<>>]
    ELSE [totalSteps |-> SumField(recs, "steps"),
          totalWorkout |-> SumField(recs, "workoutDuration"),
          avgHeartRate |-> RoundedMean(recs, "heartRate"),
          recordCount |-> Len(recs),
          avgDailySteps |-> RoundedMean(recs, "steps"),
          weeklyData |-> GetWeeklyData(recs, t, zone)]

\* SummaryDashboard: the stats and the widths of the two progress bars
SummaryDashboard(recs, t, zone) ==
    LET st == Stats(recs, t, zone)
    IN  [stats |-> st,
         stepsProgress |->
             CappedPercent(Divide(st.avgDailySteps, N(DailyStepGoal))),
         workoutProgress |->
             CappedPercent(Divide(st.totalWorkout,
                                  N(Len(recs) * DailyWorkoutGoal))),
         heartRateStatus |-> GetHeartRateStatus(st.avgHeartRate),
         zones |-> HeartZones(st.avgHeartRate)]

\* DashboardSummary: calculateStats
CalculateStats(recs) ==
    IF Len(recs) = 0
    THEN [totalSteps |-> 0, totalWorkoutDuration |-> 0, averageHeartRate |-> 0,
          dailyAverageSteps |-> 0, recordCount |-> 0]
    ELSE [totalSteps |-> SumField(recs, "steps"),
          totalWorkoutDuration |-> SumField(recs, "workoutDuration"),
          averageHeartRate |-> RoundedMean(recs, "heartRate"),
          dailyAverageSteps |-> RoundedMean(recs, "steps"),
          recordCount |-> Len(recs)]

\* DashboardSummary: getStepGoalProgress
GetStepGoalProgressUncapped(recs, steps) ==
    LET daysTracked == IF Len(recs) # 0 THEN Len(recs) ELSE 1
        totalGoal == DailyStepGoal * daysTracked
    IN  UncappedPercent(Divide(steps, N(totalGoal)))

GetStepGoalProgress(recs, steps) ==
    LET daysTracked == IF Len(recs) # 0 THEN Len(recs) ELSE 1
        totalGoal == DailyStepGoal * daysTracked
    IN  CappedPercent(Divide(steps, N(totalGoal)))

\* DashboardSummary: getHeartRateStatus
GetHeartRateStatusInMemory(heartRate) ==
    IF heartRate = 0 THEN "N/A"
    ELSE IF heartRate < N(LowHeartRate) THEN "Low"
    ELSE IF heartRate <= N(HighHeartRate) THEN "Healthy"
    ELSE "Elevated"

\* DashboardSummary: getWorkoutConsistency, the minutes in the units of the
\* records
GetWorkoutConsistencyExclusive(totalMinutes, days) ==
    IF days = 0 THEN "No Data"
    ELSE LET avgPerDay == Divide(totalMinutes, N(days))
         IN  IF avgPerDay.num > ExcellentMinutes * avgPerDay.den THEN "Excellent!"
             ELSE IF avgPerDay.num > GoodMinutes * avgPerDay.den THEN "Good"
             ELSE IF avgPerDay.num > FairMinutes * avgPerDay.den THEN "Fair"
             ELSE "Needs Work"

GetWorkoutConsistency(totalMinutes, days) ==
    IF days = 0 THEN "No Data"
    ELSE LET avgPerDay == Divide(totalMinutes, N(days))
         IN  IF avgPerDay.num >= ExcellentMinutes * avgPerDay.den THEN "Excellent!"
             ELSE IF avgPerDay.num >= GoodMinutes * avgPerDay.den THEN "Good"
             ELSE IF avgPerDay.num >= FairMinutes * avgPerDay.den THEN "Fair"
             ELSE "Needs Work"

\* DashboardSummary: the stats, the step-goal progress and the consistency badge
DashboardSummary(recs) ==
    LET st == CalculateStats(recs)
    IN  [stats |-> st,
         stepsProgress |-> GetStepGoalProgress(recs, st.totalSteps),
         heartRateStatus |-> GetHeartRateStatusInMemory(st.averageHeartRate),
         workoutConsistency |->
             GetWorkoutConsistency(st.totalWorkoutDuration, st.recordCount)]

\* HealthRecordsList of the in-memory App: getHeartRateCategory
GetHeartRateCategory(heartRate) ==
    IF heartRate < N(LowHeartRate) THEN "Low"
    ELSE IF heartRate <= N(HighHeartRate) THEN "Normal"
    ELSE "High"

\* HealthRecordsList of the in-memory App: the rows of sortedRecords
HealthRecordsList(recs) ==
    LET sortedRecords == SortByDateDesc(recs)
    IN  [rows |-> [i \in 1..Len(sortedRecords) |->
                      [record |-> sortedRecords[i],
                       hrCategory |->
                           GetHeartRateCategory(sortedRecords[i].heartRate)]]]

NotRendered == [rendered |-> FALSE]

------------------------------------------------------------------------------
(* Inputs *)

Today == TodayStr(now)
Yesterday == Str(Today[1] - 1)
Tomorrow == Str(Today[1] + 1)

\* what the user may leave in the form before submitting it, in a session
\* (the form-only specification SpecForm types field by field, see FormInputs)
Drafts ==
    [date : {Yesterday, Today, Tomorrow},
     steps : {Str(N(8000))},
     workoutDuration : {Str(N(45))},
     heartRate : {Str(N(72))}]
    \cup {[date |-> Today, steps |-> Str(N(MaxSteps) + 1),
           workoutDuration |-> Str(N(45)), heartRate |-> Str(N(72))],
          [date |-> Today, steps |-> Str(N(8000)),
           workoutDuration |-> Str(N(MaxWorkoutDuration) + 1),
           heartRate |-> Str(N(MinHeartRate) - 1)]}

\* what can be typed into each input (a number input holds '' or a number,
\* a date input '' or a date)
FormInputs ==
    [date |-> {NoText, Yesterday, Today, Tomorrow},
     steps |-> {NoText, Str(-1), Str(N(0)), Str(N(1) + 1), Str(N(MaxSteps)),
                Str(N(MaxSteps) + 1)},
     workoutDuration |-> {NoText, Str(-1), Str(N(0)), Str(N(MaxWorkoutDuration)),
                          Str(N(MaxWorkoutDuration) + 1)},
     heartRate |-> {NoText, Str(N(MinHeartRate) - 1), Str(N(MinHeartRate)),
                    Str(N(MaxHeartRate)), Str(N(MaxHeartRate) + 1)}]

\* the record data the in-memory App's form hands to its callbacks
MemoryInputs ==
    [date : {Yesterday, Today},
     steps : {N(8000)},
     workoutDuration : {N(45)},
     heartRate : {N(72)}]

------------------------------------------------------------------------------
(* Initial states *)

Init ==
    /\ variant \in {"memory", "storage"}
    /\ phase = IF variant = "memory" THEN "running" ELSE "start"
    /\ records = IF variant = "memory" THEN BuiltInRecords ELSE <<>>
    /\ showForm = FALSE
    /\ editingRecord = Null
    /\ formData = NoForm
    /\ errors = NoErrors
    /\ storage \in IF variant = "memory" THEN {NoItem}
                   ELSE {NoItem, InvalidText, NullText, NumberText, ObjectText}
    /\ now = StartDay * MsPerDay
    /\ console = <<>>
    /\ issued = IF variant = "memory" THEN <<1, 2, 3>> ELSE <<>>
    /\ seeded = FALSE
    /\ ops = 0
    /\ stats = NotRendered

------------------------------------------------------------------------------
(* Startup of the storage-backed App: first render, load effect, save effect,
   and the render and save effect that follow the load *)

StartupIn(zone) ==
    \E seed \in RandomSeeds :
        LET first == SaveEffect(storage, <<>>)
            load == LoadEffect(storage, now, seed, zone)
        IN  /\ showForm' = FALSE
            /\ editingRecord' = Null
            /\ formData' = NoForm
            /\ errors' = NoErrors
            /\ UNCHANGED <<variant, now, ops>>
            /\ IF load.set /\ RenderThrows(load.value)
               THEN /\ phase' = "crashed"
                    /\ records' = <<>>
                    /\ storage' = first
                    /\ console' = load.log
                    /\ UNCHANGED <<issued, seeded>>
               ELSE /\ phase' = "running"
                    /\ records' = IF load.set THEN load.value.items ELSE <<>>
                    /\ storage' = SaveEffect(first, records')
                    /\ console' = load.log \o SaveLog(records')
                    /\ issued' = IF ~Saved(storage)
                                 THEN issued \o [i \in 1..Len(records') |->
                                                   records'[i].id]
                                 ELSE issued
                    /\ seeded' = (seeded \/ ~Saved(storage))

\* a session runs where the local clock did not change in the last week
Startup == StartupIn(NoClockChange)

Mount == phase = "start" /\ Startup

\* the page is loaded again: the component state is lost, the item is kept
Reload == phase = "running" /\ variant = "storage" /\ Startup

Tick ==
    /\ phase # "crashed"
    /\ now < StartDay * MsPerDay + MaxTicks
    /\ now' = now + 1
    /\ UNCHANGED <<variant, phase, records, showForm, editingRecord, formData,
                   errors, storage, console, issued, seeded, ops>>

------------------------------------------------------------------------------
(* Handlers of the storage-backed App.  Each step ends with the render and the
   save effect that follow the state change. *)

Running == phase = "running" /\ variant = "storage"

\* handleAddRecord, called by the form (callerLog: what the caller logs after it)
HandleAddRecord(recordData, callerLog) ==
    LET newRecord == Merge(Merge([id |-> now], recordData), [createdAt |-> now])
    IN  /\ records' = AddedRecords(records, newRecord)
        /\ showForm' = FALSE
        /\ formData' = NoForm
        /\ errors' = NoErrors
        /\ storage' = SaveEffect(storage, records')
        /\ console' = <<Log("[App] Added new record:", newRecord.id)>>
                      \o callerLog \o SaveLog(records')
        /\ issued' = Append(issued, newRecord.id)
        /\ ops' = ops + 1
        /\ UNCHANGED <<variant, phase, editingRecord, now, seeded>>

\* handleEditRecord, called by the form
HandleEditRecord(updatedRecord, callerLog) ==
    /\ records' = EditedRecords(records, updatedRecord, now)
    /\ editingRecord' = Null
    /\ showForm' = FALSE
    /\ formData' = NoForm
    /\ errors' = NoErrors
    /\ storage' = SaveEffect(storage, records')
    /\ console' = <<Log("[App] Updated record:", updatedRecord.id)>>
                  \o callerLog \o SaveLog(records')
    /\ ops' = ops + 1
    /\ UNCHANGED <<variant, phase, now, issued, seeded>>

\* handleStartEdit: the form is rendered with the record and its effect fills it
HandleStartEdit(record) ==
    /\ Running
    /\ editingRecord' = record
    /\ showForm' = TRUE
    /\ formData' = IF showForm /\ editingRecord = record THEN formData
                   ELSE PopulateForm(record, now)
    /\ errors' = IF showForm THEN errors ELSE NoErrors
    /\ console' = <<Log("[App] Started editing record:", record.id),
                    Log("[HealthRecordForm] Loaded record for editing:", record.id)>>
    /\ UNCHANGED <<variant, phase, records, storage, now, issued, seeded, ops>>

\* a delete that does not wait for the answer of the dialog
HandleDeleteRecordUnasked(recordId, confirmed) ==
    /\ Running
    /\ records' = RemoveId(records, recordId)
    /\ storage' = SaveEffect(storage, records')
    /\ console' = <<Log("[App] Deleted record:", recordId)>> \o SaveLog(records')
    /\ ops' = ops + 1
    /\ UNCHANGED <<variant, phase, showForm, editingRecord, formData, errors, now,
                   issued, seeded>>

\* handleDeleteRecord; confirmed is the answer of window.confirm
HandleDeleteRecord(recordId, confirmed) ==
    /\ Running
    /\ IF confirmed
       THEN /\ records' = RemoveId(records, recordId)
            /\ storage' = SaveEffect(storage, records')
            /\ console' = <<Log("[App] Deleted record:", recordId)>>
                          \o SaveLog(records')
            /\ ops' = ops + 1
       ELSE /\ console' = <<>>
            /\ UNCHANGED <<records, storage, ops>>
    /\ UNCHANGED <<variant, phase, showForm, editingRecord, formData, errors, now,
                   issued, seeded>>

\* handleOpenAddForm: a form that was not rendered starts from its initial state
HandleOpenAddForm ==
    /\ Running
    /\ editingRecord' = Null
    /\ showForm' = TRUE
    /\ formData' = IF showForm THEN formData ELSE InitialFormData(now)
    /\ errors' = IF showForm THEN errors ELSE NoErrors
    /\ console' = <<>>
    /\ UNCHANGED <<variant, phase, records, storage, now, issued, seeded, ops>>

\* a close that hides the form and keeps the edit in progress
HandleCloseFormKeepingEdit ==
    /\ Running
    /\ showForm
    /\ showForm' = FALSE
    /\ formData' = NoForm
    /\ errors' = NoErrors
    /\ console' = <<>>
    /\ UNCHANGED <<variant, phase, records, editingRecord, storage, now, issued,
                   seeded, ops>>

\* handleCloseForm (cancel button, close button, Escape, click on the overlay)
HandleCloseForm ==
    /\ Running
    /\ showForm
    /\ showForm' = FALSE
    /\ editingRecord' = Null
    /\ formData' = NoForm
    /\ errors' = NoErrors
    /\ console' = <<>>
    /\ UNCHANGED <<variant, phase, records, storage, now, issued, seeded, ops>>

------------------------------------------------------------------------------
(* Handlers of the form *)

\* handleChange
HandleChange(name, value) ==
    /\ Running
    /\ showForm
    /\ formData' = [formData EXCEPT ![name] = value]
    /\ errors' = IF name \in DOMAIN errors /\ errors[name] # ""
                 THEN [errors EXCEPT ![name] = ""]
                 ELSE errors
    /\ console' = <<>>
    /\ UNCHANGED <<variant, phase, records, showForm, editingRecord, storage, now,
                   issued, seeded, ops>>

\* handleSubmit with fd in the form
SubmitFormUnchecked(fd) ==
    /\ Running
    /\ showForm
    /\ LET submittedData == SubmittedData(fd, editingRecord)
           log == <<Log("[HealthRecordForm] Form submitted:", 0)>>
       IN  IF editingRecord # Null
           THEN HandleEditRecord(submittedData, log)
           ELSE HandleAddRecord(submittedData, log)

SubmitForm(fd) ==
    /\ Running
    /\ showForm
    /\ LET newErrors == ValidateForm(fd)
       IN  IF DOMAIN newErrors = {}
           THEN LET submittedData == SubmittedData(fd, editingRecord)
                    log == <<Log("[HealthRecordForm] Form submitted:", 0)>>
                IN  IF editingRecord # Null
                    THEN HandleEditRecord(submittedData, log)
                    ELSE HandleAddRecord(submittedData, log)
           ELSE /\ formData' = fd
                /\ errors' = newErrors
                /\ console' = <<Log("[HealthRecordForm] Form validation failed:", 0)>>
                /\ UNCHANGED <<variant, phase, records, showForm, editingRecord,
                               storage, now, issued, seeded, ops>>

\* handleSubmit
HandleSubmit == SubmitForm(formData)

\* the user fills the form in (handleChange for each field) and submits it
FillAndSubmit(draft) == SubmitForm(draft)

------------------------------------------------------------------------------
(* Handlers of the in-memory App *)

RunningInMemory == phase = "running" /\ variant = "memory"

\* handleAddRecord (App.js:59)
HandleAddRecordInMemory(newRecord) ==
    /\ RunningInMemory
    /\ LET recordWithId == Merge(newRecord, [id |-> now])
       IN  /\ records' = Append(records, recordWithId)
           /\ issued' = Append(issued, recordWithId.id)
    /\ ops' = ops + 1
    /\ UNCHANGED <<variant, phase, showForm, editingRecord, formData, errors,
                   storage, now, console, seeded>>

\* handleUpdateRecord (App.js:71)
HandleUpdateRecordInMemory(updatedRecord) ==
    /\ RunningInMemory
    /\ records' = [i \in 1..Len(records) |->
                      IF records[i].id = updatedRecord.id THEN updatedRecord
                      ELSE records[i]]
    /\ editingRecord' = Null
    /\ ops' = ops + 1
    /\ UNCHANGED <<variant, phase, showForm, formData, errors, storage, now,
                   console, issued, seeded>>

\* handleDeleteRecord (App.js:82)
HandleDeleteRecordInMemory(id, confirmed) ==
    /\ RunningInMemory
    /\ IF confirmed
       THEN /\ records' = RemoveId(records, id)
            /\ editingRecord' = IF editingRecord # Null /\ editingRecord.id = id
                                THEN Null ELSE editingRecord
            /\ ops' = ops + 1
       ELSE UNCHANGED <<records, editingRecord, ops>>
    /\ UNCHANGED <<variant, phase, showForm, formData, errors, storage, now,
                   console, issued, seeded>>

\* handleEditRecord (App.js:96)
HandleEditRecordInMemory(record) ==
    /\ RunningInMemory
    /\ editingRecord' = record
    /\ UNCHANGED <<variant, phase, records, showForm, formData, errors, storage,
                   now, console, issued, seeded, ops>>

\* handleCancelEdit (App.js:105)
HandleCancelEdit ==
    /\ RunningInMemory
    /\ editingRecord' = Null
    /\ UNCHANGED <<variant, phase, records, showForm, formData, errors, storage,
                   now, console, issued, seeded, ops>>

------------------------------------------------------------------------------
(* Specifications *)

Range(seq) == {seq[i] : i \in 1..Len(seq)}

\* A session is explored until it has made its budget of list mutations: MaxOps
\* of them, MaxSeededOps when it started from the seven sample records.
Budget == ops < (IF seeded THEN MaxSeededOps ELSE MaxOps)

Next ==
    \/ Budget /\ UNCHANGED stats /\ Mount
    \/ Budget /\ UNCHANGED stats /\ Reload
    \/ Budget /\ UNCHANGED stats /\ Tick
    \/ Budget /\ UNCHANGED stats /\ HandleOpenAddForm
    \/ \E i \in 1..Len(records) :
          Budget /\ UNCHANGED stats /\ HandleStartEdit(records[i])
    \/ Budget /\ UNCHANGED stats /\ HandleCloseForm
    \/ \E draft \in Drafts : Budget /\ UNCHANGED stats /\ FillAndSubmit(draft)
    \/ \E id \in Ids(records) \cup Range(issued), confirmed \in BOOLEAN :
          Budget /\ UNCHANGED stats /\ HandleDeleteRecord(id, confirmed)
    \/ \E d \in MemoryInputs :
          Budget /\ UNCHANGED stats /\ HandleAddRecordInMemory(d)
    \/ \E d \in MemoryInputs :
          /\ Budget /\ UNCHANGED stats
          /\ editingRecord # Null
          /\ HandleUpdateRecordInMemory(Merge(d, [id |-> editingRecord.id]))
    \/ \E id \in Ids(records) \cup Range(issued), confirmed \in BOOLEAN :
          Budget /\ UNCHANGED stats /\ HandleDeleteRecordInMemory(id, confirmed)
    \/ \E i \in 1..Len(records) :
          Budget /\ UNCHANGED stats /\ HandleEditRecordInMemory(records[i])
    \/ Budget /\ UNCHANGED stats /\ HandleCancelEdit

Spec == Init /\ [][Next]_vars

\* The form alone, typed field by field: the storage-backed App with one
\* stored record, its form open to add a record or to edit the stored one.
StoredRecord ==
    [id |-> StartDay * MsPerDay - 1, date |-> Str(StartDay - 1), steps |-> N(8000),
     workoutDuration |-> N(45), heartRate |-> N(72),
     createdAt |-> StartDay * MsPerDay - 1]

InitForm ==
    /\ variant = "storage"
    /\ phase = "running"
    /\ records = <<StoredRecord>>
    /\ showForm = TRUE
    /\ now = StartDay * MsPerDay
    /\ \/ editingRecord = Null /\ formData = InitialFormData(now)
       \/ editingRecord = StoredRecord /\ formData = PopulateForm(StoredRecord, now)
    /\ errors = NoErrors
    /\ storage = JsonStringify(<<StoredRecord>>)
    /\ console = <<>>
    /\ issued = <<StoredRecord.id>>
    /\ seeded = FALSE
    /\ ops = 0
    /\ stats = NotRendered

NextForm ==
    \/ \E name \in Fields : \E value \in FormInputs[name] :
          UNCHANGED stats /\ HandleChange(name, value)
    \/ UNCHANGED stats /\ HandleSubmit

SpecForm == InitForm /\ [][NextForm]_vars

\* The dashboards alone: each App holding a list of up to MaxLen records, its
\* dashboard rendering it.
RecordValues ==
    {[steps |-> N(8500), workoutDuration |-> N(45), heartRate |-> N(72)],
     [steps |-> N(10200), workoutDuration |-> N(60), heartRate |-> N(75)],
     [steps |-> N(7800), workoutDuration |-> N(30), heartRate |-> N(70)],
     [steps |-> N(MaxSteps), workoutDuration |-> N(MaxWorkoutDuration),
      heartRate |-> N(MaxHeartRate)],
     [steps |-> N(1), workoutDuration |-> N(0), heartRate |-> N(MinHeartRate)]}

\* the k-th record of a list, newest first, holding values v
ListedRecord(v, k) ==
    Merge(v, [id |-> StartDay * MsPerDay - k, date |-> Str(StartDay + 1 - k)])

RecordLists ==
    UNION {{[k \in 1..n |-> ListedRecord(vs[k], k)] : vs \in [1..n -> RecordValues]}
              : n \in 0..MaxLen}

\* the records as the storage-backed App holds them
Stamped(recs) ==
    [k \in 1..Len(recs) |-> Merge(recs[k], [createdAt |-> recs[k].id])]

\* one record at each heart rate the form accepts
HeartRateProbes ==
    {<<ListedRecord([steps |-> N(8500), workoutDuration |-> N(45),
                     heartRate |-> N(bpm)], 1)>> : bpm \in MinHeartRate..MaxHeartRate}

\* the first and the last millisecond of the day
DashboardTimes == {StartDay * MsPerDay, (StartDay + 1) * MsPerDay - 1}

InitDashboard ==
    /\ variant \in {"memory", "storage"}
    /\ phase = "running"
    /\ records \in IF variant = "memory"
                   THEN RecordLists \cup HeartRateProbes \cup {BuiltInRecords}
                   ELSE {Stamped(recs) : recs \in RecordLists \cup HeartRateProbes}
    /\ showForm = FALSE
    /\ editingRecord = Null
    /\ formData = NoForm
    /\ errors = NoErrors
    /\ storage = IF variant = "memory" THEN NoItem ELSE SaveEffect(NoItem, records)
    /\ now \in DashboardTimes
    /\ console = <<>>
    /\ issued = [i \in 1..Len(records) |-> records[i].id]
    /\ seeded = FALSE
    /\ ops = 0
    /\ stats = NotRendered

\* the storage-backed App renders <SummaryDashboard records={records} />
RenderSummaryDashboard ==
    /\ Running
    /\ \E zone \in ClockChanges : stats' = SummaryDashboard(records, now, zone)
    /\ UNCHANGED <<variant, phase, records, showForm, editingRecord, formData,
                   errors, storage, now, console, issued, seeded, ops>>

\* the in-memory App renders <DashboardSummary records={records} />
RenderDashboardSummary ==
    /\ RunningInMemory
    /\ stats' = DashboardSummary(records)
    /\ UNCHANGED <<variant, phase, records, showForm, editingRecord, formData,
                   errors, storage, now, console, issued, seeded, ops>>

\* the in-memory App renders <HealthRecordsList records={records} />
RenderHealthRecordsList ==
    /\ RunningInMemory
    /\ stats' = HealthRecordsList(records)
    /\ UNCHANGED <<variant, phase, records, showForm, editingRecord, formData,
                   errors, storage, now, console, issued, seeded, ops>>

NextDashboard ==
    \/ RenderSummaryDashboard
    \/ RenderDashboardSummary
    \/ RenderHealthRecordsList

SpecDashboard == InitDashboard /\ [][NextDashboard]_vars

\* The startup of the storage-backed App alone, commit by commit, from every
\* item the key may hold and in every zone.
StartupItems ==
    {NoItem, EmptyText, InvalidText, NullText, NumberText, ObjectText} \cup
    {JsonStringify(Stamped(recs)) : recs \in RecordLists}

InitStartup ==
    /\ variant = "storage"
    /\ phase = "start"
    /\ records = <<>>
    /\ showForm = FALSE
    /\ editingRecord = Null
    /\ formData = NoForm
    /\ errors = NoErrors
    /\ storage \in StartupItems
    /\ now \in DashboardTimes
    /\ console = <<>>
    /\ issued = IF storage.doc = "array"
                THEN [i \in 1..Len(storage.items) |-> storage.items[i].id]
                ELSE <<>>
    /\ seeded = FALSE
    /\ ops = 0
    /\ stats = NotRendered

\* the first commit: the load effect calls setRecords, the save effect runs
\* with the records of the first render, []
MountEffects(zone) ==
    /\ phase = "start"
    /\ \E seed \in RandomSeeds :
          LET load == LoadEffect(storage, now, seed, zone)
          IN  /\ storage' = SaveEffect(storage, <<>>)
              /\ console' = load.log \o SaveLog(<<>>)
              /\ IF ~load.set
                 THEN phase' = "running" /\ records' = <<>>
                 ELSE IF RenderThrows(load.value)
                 THEN phase' = "crashed" /\ records' = <<>>
                 ELSE phase' = "mounted" /\ records' = load.value.items
              /\ issued' = IF ~Saved(storage)
                           THEN issued \o [i \in 1..Len(records') |-> records'[i].id]
                           ELSE issued
              /\ seeded' = (seeded \/ ~Saved(storage))
    /\ UNCHANGED <<variant, showForm, editingRecord, formData, errors, now, ops>>

\* the second commit: the render with the loaded records, then the save effect
RenderLoaded ==
    /\ phase = "mounted"
    /\ phase' = "running"
    /\ storage' = SaveEffect(storage, records)
    /\ console' = SaveLog(records)
    /\ UNCHANGED <<variant, records, showForm, editingRecord, formData, errors,
                   now, issued, seeded, ops>>

NextStartup ==
    \/ \E zone \in ClockChanges : UNCHANGED stats /\ MountEffects(zone)
    \/ UNCHANGED stats /\ RenderLoaded

SpecStartup == InitStartup /\ [][NextStartup]_vars

\* Two handlers called one after the other in one render of either App: both
\* see the records, the clock aside, that the render closed over, and React
\* applies their setRecords calls in order before it renders again.
Mutations(recs) ==
    {[kind |-> "add", data |-> d] : d \in MemoryInputs}
    \cup {[kind |-> "edit", data |-> Merge(d, [id |-> id])] :
              d \in MemoryInputs, id \in Ids(recs)}
    \cup {[kind |-> "delete", id |-> id] : id \in Ids(recs)}

\* in-memory App: the list a handler hands to setRecords, computed from the
\* records of the render (App.js:64, 72, 84)
SetRecordsInMemory(closure, m, t) ==
    CASE m.kind = "add" -> Append(closure, Merge(m.data, [id |-> t]))
      [] m.kind = "edit" -> [i \in 1..Len(closure) |->
                               IF closure[i].id = m.data.id THEN m.data
                               ELSE closure[i]]
      [] m.kind = "delete" -> RemoveId(closure, m.id)

\* storage-backed App: the updater a handler hands to setRecords, applied to
\* the records React holds by then (App.js:268, 290, 327)
Updater(prevRecords, m, t) ==
    CASE m.kind = "add" ->
            AddedRecords(prevRecords,
                         Merge(Merge([id |-> t], m.data), [createdAt |-> t]))
      [] m.kind = "edit" -> EditedRecords(prevRecords, m.data, t)
      [] m.kind = "delete" -> RemoveId(prevRecords, m.id)

MutationLog(m, t) ==
    CASE m.kind = "add" -> Log("[App] Added new record:", t)
      [] m.kind = "edit" -> Log("[App] Updated record:", m.data.id)
      [] m.kind = "delete" -> Log("[App] Deleted record:", m.id)

\* handlers m1 and m2 run, the clock moving by later between them, and the App
\* renders: a list replaces the pending one, an updater maps it
RunTwoHandlers(m1, m2, later) ==
    /\ phase = "running"
    /\ ops < MaxOps
    /\ now + later <= StartDay * MsPerDay + MaxTicks
    /\ now' = now + later
    /\ records' = IF variant = "memory"
                  THEN SetRecordsInMemory(records, m2, now')
                  ELSE Updater(Updater(records, m1, now), m2, now')
    /\ editingRecord' =
           IF variant = "storage"
           THEN IF "edit" \in {m1.kind, m2.kind} THEN Null ELSE editingRecord
           ELSE IF \/ "edit" \in {m1.kind, m2.kind}
                   \/ /\ editingRecord # Null
                      /\ \E m \in {m1, m2} :
                             m.kind = "delete" /\ m.id = editingRecord.id
                THEN Null ELSE editingRecord
    /\ showForm' = IF variant = "storage" /\ {m1.kind, m2.kind} # {"delete"}
                   THEN FALSE ELSE showForm
    /\ formData' = IF showForm' THEN formData ELSE NoForm
    /\ errors' = IF showForm' THEN errors ELSE NoErrors
    /\ storage' = IF variant = "storage" THEN SaveEffect(storage, records')
                  ELSE storage
    /\ console' = IF variant = "storage"
                  THEN <<MutationLog(m1, now), MutationLog(m2, now')>>
                       \o SaveLog(records')
                  ELSE <<>>
    /\ issued' = issued \o (IF m1.kind = "add" THEN <<now>> ELSE <<>>)
                        \o (IF m2.kind = "add" THEN <<now'>> ELSE <<>>)
    /\ ops' = ops + 2
    /\ UNCHANGED <<variant, phase, seeded>>

InitBatch ==
    /\ variant \in {"memory", "storage"}
    /\ phase = "running"
    /\ records = IF variant = "memory" THEN BuiltInRecords ELSE <<StoredRecord>>
    /\ showForm = FALSE
    /\ editingRecord = Null
    /\ formData = NoForm
    /\ errors = NoErrors
    /\ storage = IF variant = "memory" THEN NoItem ELSE JsonStringify(records)
    /\ now = StartDay * MsPerDay
    /\ console = <<>>
    /\ issued = [i \in 1..Len(records) |-> records[i].id]
    /\ seeded = FALSE
    /\ ops = 0
    /\ stats = NotRendered

\* the pairs with an add: two adds, or an add and a delete or an edit
NextBatch ==
    \E m1, m2 \in Mutations(records) : \E later \in {0, 1} :
        /\ "add" \in {m1.kind, m2.kind}
        /\ UNCHANGED stats
        /\ RunTwoHandlers(m1, m2, later)

SpecBatch == InitBatch /\ [][NextBatch]_vars

------------------------------------------------------------------------------
(* Properties *)

DistinctIds(recs) == Cardinality(Ids(recs)) = Len(recs)
NoRepeats(seq) == Cardinality(Range(seq)) = Len(seq)

LastLogIs(msg) == console # <<>> /\ console[1].msg = msg

\* the last step was an add, an edit or a confirmed delete of the
\* storage-backed App
MutationLogged ==
    \/ LastLogIs("[App] Added new record:")
    \/ LastLogIs("[App] Updated record:")
    \/ LastLogIs("[App] Deleted record:")

\* C1: no two live records share an id, and no add gives out an id that was
\* given out before (to a record since deleted, or in the same clock instant).
C1_IdsNeverRepeat == DistinctIds(records) /\ NoRepeats(issued)

\* C2: after an add, an edit or a confirmed delete in the storage-backed App
\* (the save effect included), the stored item is the serialization of the
\* current list, also when the list has become empty.
C2_StoredIsCurrent ==
    (variant = "storage" /\ phase = "running" /\ MutationLogged)
        => storage = JsonStringify(records)

\* C3: loading the page again gives back the list held before, for every list
\* the session has reached, the empty one included.
C3_RestartKeepsList ==
    [][Reload => (phase' = "running" /\ records' = records)]_vars

\* C4: whatever text the item holds at startup, startup raises no uncaught
\* error.
C4_StartupNeverCrashes == phase # "crashed"

WithinBounds(r) ==
    /\ r.steps >= N(0) /\ r.steps <= N(MaxSteps)
    /\ r.workoutDuration >= N(0) /\ r.workoutDuration <= N(MaxWorkoutDuration)
    /\ r.heartRate >= N(MinHeartRate) /\ r.heartRate <= N(MaxHeartRate)

Missing(s) == ~Truthy(s)

\* what the form's rules call an offending field: a field left empty, or a
\* number outside its closed interval
Offending(fd, field) ==
    CASE field = "date" -> Missing(fd.date)
      [] field = "steps" ->
            \/ Missing(fd.steps)
            \/ Number(fd.steps) < N(0)
            \/ Number(fd.steps) > N(MaxSteps)
      [] field = "workoutDuration" ->
            \/ Missing(fd.workoutDuration)
            \/ Number(fd.workoutDuration) < N(0)
            \/ Number(fd.workoutDuration) > N(MaxWorkoutDuration)
      [] field = "heartRate" ->
            \/ Missing(fd.heartRate)
            \/ Number(fd.heartRate) < N(MinHeartRate)
            \/ Number(fd.heartRate) > N(MaxHeartRate)

C8_NoFutureDate ==
    variant = "storage" =>
        /\ \A i \in 1..Len(records) :
              DateMs(records[i].date) <= DateMs(TodayStr(now))
        /\ ( /\ showForm
             /\ LastLogIs("[HealthRecordForm] Form validation failed:")
             /\ Truthy(formData.date)
             /\ DateMs(formData.date) > DateMs(TodayStr(now)) )
              => "date" \in DOMAIN errors

\* C9: the form turns down a number that is not a whole number, so every
\* record holds whole numbers of steps, minutes and beats.
C9_WholeNumbers ==
    \A i \in 1..Len(records) :
        /\ IsInteger(records[i].steps)
        /\ IsInteger(records[i].workoutDuration)
        /\ IsInteger(records[i].heartRate)

\* a valid submission in edit mode for a record that has left the list
EditOfAbsentId ==
    /\ editingRecord # Null
    /\ editingRecord.id \notin Ids(records)
    /\ \E draft \in Drafts :
          /\ DOMAIN ValidateForm(draft) = {}
          /\ FillAndSubmit(draft)

\* a confirmed delete of an id that was given out and has left the list
DeleteOfAbsentId ==
    \E recordId \in Range(issued) \ Ids(records) :
        \/ HandleDeleteRecord(recordId, TRUE)
        \/ HandleDeleteRecordInMemory(recordId, TRUE)

NotFoundReported ==
    \E i \in 1..Len(console') : console'[i].msg = "NotFound"

\* C10 (as amended): an edit or a confirmed delete naming an id absent from
\* the list leaves the list as it was, content and order.
C10_AbsentIdLeavesList ==
    [][(EditOfAbsentId \/ DeleteOfAbsentId) => records' = records]_vars

\* C10 (as stated): an edit or a delete naming an id absent from the list is
\* reported as NotFound and leaves the list as it was.
C10_AbsentIdReported ==
    [][(EditOfAbsentId \/ DeleteOfAbsentId)
          => (records' = records /\ NotFoundReported)]_vars

\* an edit was submitted for a record deleted while its form was open
C10_Witness ==
    /\ variant = "storage"
    /\ LastLogIs("[App] Updated record:")
    /\ console[1].arg \notin Ids(records)
    /\ console[1].arg \in Range(issued)

Valid(fd) == DOMAIN ValidateForm(fd) = {}

\* record r holds what draft fd says
HoldsDraft(r, fd) ==
    /\ r.date = fd.date
    /\ r.steps = Number(fd.steps)
    /\ r.workoutDuration = Number(fd.workoutDuration)
    /\ r.heartRate = Number(fd.heartRate)

\* record r holds what the in-memory form handed over
HoldsData(r, d) ==
    /\ r.date = d.date
    /\ r.steps = d.steps
    /\ r.workoutDuration = d.workoutDuration
    /\ r.heartRate = d.heartRate

\* the record of that id kept the createdAt it had in prevRecords
KeptCreatedAt(r, prevRecords) ==
    \E j \in 1..Len(prevRecords) :
        /\ prevRecords[j].id = r.id
        /\ "createdAt" \in DOMAIN r <=> "createdAt" \in DOMAIN prevRecords[j]
        /\ "createdAt" \in DOMAIN r => r.createdAt = prevRecords[j].createdAt

\* a step that changed the list and kept its length, made while a live record
\* was being edited
ListChangedInEdit ==
    /\ ops' = ops + 1
    /\ editingRecord # Null
    /\ Len(records') = Len(records)
    /\ editingRecord.id \in Ids(records)

\* the step is the form's valid submission of draft in edit mode
EditSubmitted(draft) == Valid(draft) /\ FillAndSubmit(draft)

\* the step is the in-memory App's update of the edited record with data d
UpdatedInMemory(d) ==
    HandleUpdateRecordInMemory(Merge(d, [id |-> editingRecord.id]))

\* the list after the step holds the edited record with the four values of d
\* and the createdAt it had
EditedRecordHolds(d, fromForm, stamped) ==
    \E i \in 1..Len(records') :
        /\ records'[i].id = editingRecord.id
        /\ IF fromForm THEN HoldsDraft(records'[i], d) ELSE HoldsData(records'[i], d)
        /\ KeptCreatedAt(records'[i], records)
        /\ stamped => "updatedAt" \in DOMAIN records'[i]

\* C11 (as amended): after a successful edit of a live record with data d the
\* list holds a record of the same id with d's date, steps, workoutDuration and
\* heartRate and the createdAt it had; the storage-backed App stamps it with
\* updatedAt.
C11_EditTakesData ==
    [][ ListChangedInEdit =>
          IF variant = "storage"
          THEN \A draft \in Drafts :
                  EditSubmitted(draft) => EditedRecordHolds(draft, TRUE, TRUE)
          ELSE \A d \in MemoryInputs :
                  UpdatedInMemory(d) => EditedRecordHolds(d, FALSE, FALSE) ]_vars

\* C11 (as stated): after a successful edit of a live record, in either App,
\* the list holds a record of the same id with d's four values, the createdAt
\* it had, and an updatedAt stamp.
C11_EditStampsEverywhere ==
    [][ ListChangedInEdit =>
          IF variant = "storage"
          THEN \A draft \in Drafts :
                  EditSubmitted(draft) => EditedRecordHolds(draft, TRUE, TRUE)
          ELSE \A d \in MemoryInputs :
                  UpdatedInMemory(d) => EditedRecordHolds(d, FALSE, TRUE) ]_vars

\* an edit of a live record moved it to another date, its createdAt kept
C11_Witness ==
    /\ variant = "storage"
    /\ LastLogIs("[App] Updated record:")
    /\ \E i \in 1..Len(records) :
          /\ records[i].id = console[1].arg
          /\ "updatedAt" \in DOMAIN records[i]
          /\ records[i].createdAt < records[i].updatedAt
          /\ records[i].date # TodayStr(records[i].createdAt)

\* the step is an add, an edit or a confirmed delete
ListMutated == ops' = ops + 1

\* C12: after a confirmed delete of an id no record of the list has that id,
\* and no later add, edit or delete puts a record with that id into the list.
C12_DeletedStaysOut ==
    [][ ListMutated =>
          /\ \A id \in Ids(records) :
                ( \/ HandleDeleteRecord(id, TRUE)
                  \/ HandleDeleteRecordInMemory(id, TRUE) )
                => id \notin Ids(records')
          /\ \A id \in Range(issued) \ Ids(records) : id \notin Ids(records') ]_vars

RemoveAt(seq, k) == SubSeq(seq, 1, k - 1) \o SubSeq(seq, k + 1, Len(seq))

\* the list after the step is the list before it plus one record, which holds
\* the four values of d and the id the clock gave
OneMoreRecord(d, fromForm) ==
    /\ Len(records') = Len(records) + 1
    /\ \E k \in 1..Len(records') :
          /\ records'[k].id = now
          /\ IF fromForm THEN HoldsDraft(records'[k], d) ELSE HoldsData(records'[k], d)
          /\ RemoveAt(records', k) = records

\* C13: an add of a validated draft gives a list with exactly one more record:
\* the earlier records are all there, and the new one holds the draft's date,
\* steps, workoutDuration and heartRate under a generated id.
C13_AddIsOneMore ==
    [][ (ListMutated /\ editingRecord = Null) =>
          IF variant = "storage"
          THEN \A draft \in Drafts :
                  (Valid(draft) /\ FillAndSubmit(draft))
                      => OneMoreRecord(draft, TRUE)
          ELSE \A d \in MemoryInputs :
                  HandleAddRecordInMemory(d) => OneMoreRecord(d, FALSE) ]_vars

\* a record was added between two records of the list
C13_Witness ==
    /\ variant = "storage"
    /\ LastLogIs("[App] Added new record:")
    /\ \E k \in 2..(Len(records) - 1) :
          /\ records[k].id = console[1].arg
          /\ records[k].createdAt = now

\* C14: a delete whose confirmation is declined changes nothing: the list,
\* the editing state and the stored item are as before.
C14_DeclinedDeleteNoOp ==
    [][ (phase = "running" /\ now' = now /\ issued' = issued
            /\ showForm' = showForm) =>
          \A id \in Ids(records) \cup Range(issued) :
              ( \/ HandleDeleteRecord(id, FALSE)
                \/ HandleDeleteRecordInMemory(id, FALSE) )
              => /\ records' = records
                 /\ editingRecord' = editingRecord
                 /\ storage' = storage ]_vars

\* a delete was declined while a record of the list was being edited: the
\* record is still there and still being edited (in edit mode only a declined
\* delete leaves the log of the step empty)
C14_Witness ==
    /\ variant = "storage"
    /\ showForm
    /\ editingRecord # Null
    /\ editingRecord.id \in Ids(records)
    /\ console = <<>>
    /\ storage = JsonStringify(records)

\* C15: whenever a record is being edited, a record with its id is in the
\* list.
C15_EditedRecordIsLive ==
    editingRecord # Null => editingRecord.id \in Ids(records)

\* C16: closing or cancelling the form ends the edit and leaves the list as it
\* was, whatever the form holds.
C16_CloseKeepsList ==
    [][ (HandleCloseForm \/ HandleCancelEdit)
          => (editingRecord' = Null /\ records' = records) ]_vars

\* the state a close leaves behind: no form, no edit in progress, nothing
\* logged, the list still holding its records
C16_Witness ==
    /\ variant = "storage"
    /\ phase = "running"
    /\ ~showForm
    /\ editingRecord = Null
    /\ console = <<>>
    /\ formData = NoForm
    /\ Len(records) > 0

Rendered == "stats" \in DOMAIN stats

\* the sum of a field over the list, record by record
SumByIndex(recs, field) ==
    LET upTo[k \in 0..Len(recs)] ==
            IF k = 0 THEN 0 ELSE upTo[k - 1] + recs[k][field]
    IN  upTo[Len(recs)]

TotalStepsShown == stats.stats.totalSteps
TotalWorkoutShown ==
    IF variant = "storage" THEN stats.stats.totalWorkout
    ELSE stats.stats.totalWorkoutDuration
AvgHeartRateShown ==
    IF variant = "storage" THEN stats.stats.avgHeartRate
    ELSE stats.stats.averageHeartRate
AvgDailyStepsShown ==
    IF variant = "storage" THEN stats.stats.avgDailySteps
    ELSE stats.stats.dailyAverageSteps

IsNumber(q) == q # NaN /\ q # Infinity

\* C17: for an empty list every total and average of the summary is 0, the
\* weekly series has exactly 7 buckets of 0 steps, and nothing rendered comes
\* from a division by zero.
C17_EmptySummary ==
    (Rendered /\ records = <<>>) =>
        /\ TotalStepsShown = 0
        /\ TotalWorkoutShown = 0
        /\ AvgHeartRateShown = 0
        /\ AvgDailyStepsShown = 0
        /\ IsNumber(stats.stepsProgress)
        /\ variant = "storage" =>
              /\ IsNumber(stats.workoutProgress)
              /\ Len(stats.stats.weeklyData) = WeekDays
              /\ \A k \in 1..Len(stats.stats.weeklyData) :
                    stats.stats.weeklyData[k].steps = 0

\* the list of the worked example
ExampleList ==
    /\ Len(records) = 3
    /\ records[1].steps = N(8500) /\ records[2].steps = N(10200)
    /\ records[3].steps = N(7800)
    /\ records[1].workoutDuration = N(45) /\ records[2].workoutDuration = N(60)
    /\ records[3].workoutDuration = N(30)
    /\ records[1].heartRate = N(72) /\ records[2].heartRate = N(75)
    /\ records[3].heartRate = N(70)

\* C18: for a non-empty list both dashboards show as totalSteps the sum of
\* steps and as totalWorkout the sum of workoutDuration; 26500 and 135 for the
\* worked example.
C18_TotalsAreSums ==
    (Rendered /\ Len(records) > 0) =>
        /\ TotalStepsShown = SumByIndex(records, "steps")
        /\ TotalWorkoutShown = SumByIndex(records, "workoutDuration")
        /\ ExampleList =>
              TotalStepsShown = N(26500) /\ TotalWorkoutShown = N(135)

\* a dashboard shows the totals of a list in which two records have the same
\* steps and minutes
C18_Witness ==
    /\ Rendered
    /\ Len(records) = 3
    /\ records[1].steps = records[3].steps
    /\ records[1].workoutDuration = records[3].workoutDuration
    /\ TotalStepsShown = 2 * records[1].steps + records[2].steps
    /\ TotalStepsShown > N(MaxSteps)

\* m (in the units of the records) is sum / count rounded to the nearest
\* integer, a half going up
NearestHalfUp(m, sum, count) ==
    /\ IsInteger(m)
    /\ (2 * (m \div Scale) - 1) * (Scale * count) <= 2 * sum
    /\ 2 * sum < (2 * (m \div Scale) + 1) * (Scale * count)

\* C19: for a non-empty list averageHeartRate is the mean heart rate and
\* dailyAverageSteps is totalSteps / recordCount, each rounded to the nearest
\* integer with a half going up; both are 0 for the empty list; 72 and 8833
\* for the worked example.
C19_RoundedAverages ==
    Rendered =>
        IF Len(records) = 0
        THEN AvgHeartRateShown = 0 /\ AvgDailyStepsShown = 0
        ELSE /\ NearestHalfUp(AvgHeartRateShown,
                              SumByIndex(records, "heartRate"), Len(records))
             /\ NearestHalfUp(AvgDailyStepsShown,
                              SumByIndex(records, "steps"), Len(records))
             /\ ExampleList =>
                   AvgHeartRateShown = N(72) /\ AvgDailyStepsShown = N(8833)

\* a dashboard shows an average whose exact value ends in a half
C19_Witness ==
    /\ Rendered
    /\ Len(records) = 2
    /\ 2 * SumByIndex(records, "heartRate")
          = (2 * (AvgHeartRateShown \div Scale) - 1) * (Scale * 2)
    /\ 2 * SumByIndex(records, "steps")
          = (2 * (AvgDailyStepsShown \div Scale) - 1) * (Scale * 2)

\* min(100, 100 * a / b) as a fraction in lowest terms
MinHundred(a, b) ==
    IF a >= b THEN Fraction(100, 1) ELSE Fraction(100 * a, b)

InZeroToHundred(q) ==
    IsNumber(q) /\ q.num >= 0 /\ q.den > 0 /\ q.num <= 100 * q.den

\* C20 (as amended): step-goal progress lies in [0, 100] and is 0 for the
\* empty list; in DashboardSummary it equals
\* min(100, 100 * totalSteps / (10000 * recordCount)), in SummaryDashboard
\* min(100, 100 * avgDailySteps / 10000) with avgDailySteps the rounded average.
C20_StepGoalProgress ==
    Rendered =>
        /\ InZeroToHundred(stats.stepsProgress)
        /\ IF Len(records) = 0 THEN stats.stepsProgress = Fraction(0, 1)
           ELSE IF variant = "memory"
           THEN stats.stepsProgress =
                    MinHundred(SumByIndex(records, "steps"),
                               N(DailyStepGoal * Len(records)))
           ELSE stats.stepsProgress =
                    MinHundred(AvgDailyStepsShown, N(DailyStepGoal))

\* C20 (as stated): in both dashboards step-goal progress equals
\* min(100, 100 * totalSteps / (10000 * recordCount)), is 0 for the empty list
\* and lies in [0, 100].
C20_StepGoalProgressExact ==
    Rendered =>
        /\ InZeroToHundred(stats.stepsProgress)
        /\ IF Len(records) = 0 THEN stats.stepsProgress = Fraction(0, 1)
           ELSE stats.stepsProgress =
                    MinHundred(SumByIndex(records, "steps"),
                               N(DailyStepGoal * Len(records)))

\* DashboardSummary shows 100 for a list whose steps exceed the goal
C20_Witness ==
    /\ Rendered
    /\ variant = "memory"
    /\ Len(records) > 1
    /\ SumByIndex(records, "steps") > N(DailyStepGoal * Len(records))
    /\ stats.stepsProgress = Fraction(100, 1)

\* C21: the consistency badge of DashboardSummary rates the workout minutes per
\* record: 'Excellent!' from 30 up, 'Good' from 20 up to 30, 'Fair' from 10 up
\* to 20, 'Needs Work' below 10, and 'No Data' for the empty list; the rating
\* shown is the only one whose range holds the average.
WorkoutMinutesPerRecord ==
    Fraction(SumByIndex(records, "workoutDuration"), Scale * Len(records))

AtLeast(q, n) == q.num >= n * q.den

C21_WorkoutConsistency ==
    (Rendered /\ variant = "memory") =>
        LET rating == stats.workoutConsistency
        IN  IF Len(records) = 0 THEN rating = "No Data"
            ELSE LET avg == WorkoutMinutesPerRecord
                 IN  /\ rating \in {"Excellent!", "Good", "Fair", "Needs Work"}
                     /\ rating = "Excellent!" <=> AtLeast(avg, 30)
                     /\ rating = "Good" <=> (AtLeast(avg, 20) /\ ~AtLeast(avg, 30))
                     /\ rating = "Fair" <=> (AtLeast(avg, 10) /\ ~AtLeast(avg, 20))
                     /\ rating = "Needs Work" <=> ~AtLeast(avg, 10)

\* three records averaging exactly 20 minutes are rated 'Good'
C21_Witness ==
    /\ Rendered /\ variant = "memory"
    /\ Len(records) = 3
    /\ WorkoutMinutesPerRecord = Fraction(20, 1)
    /\ stats.workoutConsistency = "Good"

\* C22: for a non-empty list the weekly series of SummaryDashboard has 7
\* entries, one for each of the 7 consecutive days ending today, oldest first;
\* an entry holds the steps of the first record of the list with its date, or
\* 0, and min(100, steps / 10000 * 100).
FirstStepsOn(recs, dateStr) ==
    IF \A i \in 1..Len(recs) : recs[i].date # dateStr THEN 0
    ELSE LET i == CHOOSE x \in 1..Len(recs) :
                      /\ recs[x].date = dateStr
                      /\ \A y \in 1..(x - 1) : recs[y].date # dateStr
         IN  recs[i].steps

C22_WeeklySeries ==
    (Rendered /\ variant = "storage" /\ Len(records) > 0) =>
        LET weekly == stats.stats.weeklyData
            today == now \div MsPerDay
        IN  /\ Len(weekly) = 7
            /\ \A k \in 1..7 :
                   /\ weekly[k].date = Str(today - 7 + k)
                   /\ weekly[k].steps = FirstStepsOn(records, weekly[k].date)
                   /\ weekly[k].percentage =
                          MinHundred(weekly[k].steps, N(DailyStepGoal))

\* C23: every heart-rate classifier (the badge of a list row, the status label
\* of either dashboard, the zone markers) assigns the same zone to a rate:
\* below 60 low, 60 to 100 inclusive normal, above 100 elevated.
Zone(heartRate) ==
    IF heartRate < N(60) THEN "low"
    ELSE IF heartRate <= N(100) THEN "normal"
    ELSE "elevated"

ZoneOf(label) ==
    IF label \in {"Low", "Resting", "Rest"} THEN "low"
    ELSE IF label \in {"Normal", "Healthy", "Normal range"} THEN "normal"
    ELSE IF label \in {"High", "Elevated"} THEN "elevated"
    ELSE "none"

ListRendered == "rows" \in DOMAIN stats

ActiveZones == {ZoneOf(z) : z \in {m \in DOMAIN stats.zones : stats.zones[m]}}

C23_OneHeartRateZone ==
    /\ ListRendered =>
           \A i \in 1..Len(stats.rows) :
               ZoneOf(stats.rows[i].hrCategory) = Zone(stats.rows[i].record.heartRate)
    /\ (Rendered /\ Len(records) > 0) =>
           /\ ZoneOf(stats.heartRateStatus) = Zone(AvgHeartRateShown)
           /\ variant = "storage" => ActiveZones = {Zone(AvgHeartRateShown)}

\* C30: for every average heart rate SummaryDashboard shows, 0 for the empty
\* list included, exactly one of the markers Rest, Normal, Elevated is active
\* and it names the zone of the status text.
ActiveMarkers == {m \in DOMAIN stats.zones : stats.zones[m]}

C30_MarkerMatchesStatus ==
    (Rendered /\ variant = "storage") =>
        /\ Cardinality(ActiveMarkers) = 1
        /\ \A m \in ActiveMarkers : ZoneOf(m) = ZoneOf(stats.heartRateStatus)

\* C24: when the key holds no value at startup the list is seeded with 7 sample
\* records, one for each of the 7 days ending today, newest first, with
\* pairwise distinct ids and dates and values inside the validation bounds;
\* when a value is stored, no sample data is added.
SevenSamples(recs, today) ==
    /\ Len(recs) = 7
    /\ \A j \in 1..7 : recs[j].date = Str(today - (j - 1))
    /\ \A j \in 1..7 : WithinBounds(recs[j])
    /\ \A j, k \in 1..7 :
           j # k => recs[j].id # recs[k].id /\ recs[j].date # recs[k].date

C24_SeededWhenNothingStored ==
    [][phase = "start" =>
           IF storage = NoItem THEN SevenSamples(records', now \div MsPerDay)
           ELSE records' = IF storage.doc = "array" THEN storage.items ELSE <<>>]_vars

\* C29: when the key holds a non-empty record array at startup, no commit of
\* the startup changes the stored value: the save effect that runs with the
\* initial empty list writes nothing, the save effect that follows the load
\* writes the loaded array back.
C29_StartupKeepsStoredArray ==
    [][(storage.doc = "array" /\ Len(storage.items) > 0) => storage' = storage]_vars

\* the App is running on a stored list of several records, the save effect
\* having written them back
C29_Witness ==
    /\ phase = "running" /\ ~seeded
    /\ Len(records) > 1
    /\ console = SaveLog(records)
    /\ storage = JsonStringify(records)

\* C25: records of the storage-backed App that share a date are listed in
\* the order in which they were created (createdAt, which an edit keeps),
\* after any adds, deletes and edits of a list built with the form.
C25_SameDateInCreationOrder ==
    (variant = "storage" /\ phase = "running" /\ ~seeded) =>
        \A i, j \in 1..Len(records) :
            (i < j /\ records[i].date = records[j].date) =>
                records[i].createdAt <= records[j].createdAt

\* C26: an add, an edit or a confirmed delete leaves every record but the
\* targeted one as it was: an add only adds one record, an edit changes at
\* most one record and not the number of records, a delete removes at most one
\* record.
SameButOne(before, after) ==
    \/ before = after
    \/ \E p \in 1..Len(before) : \E q \in 1..Len(after) :
           RemoveAt(before, p) = RemoveAt(after, q)

C26_OthersUntouched ==
    [][ ListMutated =>
          /\ LastLogIs("[App] Updated record:")' => Len(records') = Len(records)
          /\ IF Len(records') > Len(records)
             THEN \E q \in 1..Len(records') : RemoveAt(records', q) = records
             ELSE IF Len(records') = Len(records)
             THEN SameButOne(records, records')
             ELSE \E p \in 1..Len(records) : RemoveAt(records, p) = records' ]_vars

\* C27: a submission that fails validation does not call the submit
\* callback: the list, the editing state, the open form and the stored item
\* are as before, and the errors shown are a mapping with one message for
\* each offending field.
C27_FailedSubmitCallsNothing ==
    [][ (~Valid(formData) /\ HandleSubmit) =>
          /\ records' = records
          /\ editingRecord' = editingRecord
          /\ showForm' = showForm
          /\ storage' = storage
          /\ DOMAIN errors' = {field \in Fields : Offending(formData, field)}
          /\ \A field \in DOMAIN errors' : errors'[field] # "" ]_vars

\* an edit was turned down for three fields: the record is still being edited
\* and is stored as it was
C27_Witness ==
    /\ LastLogIs("[HealthRecordForm] Form validation failed:")
    /\ editingRecord = StoredRecord
    /\ records = <<StoredRecord>>
    /\ storage = JsonStringify(<<StoredRecord>>)
    /\ Cardinality(DOMAIN errors) = 3

\* C28: when two mutation handlers, one of them an add, run one after the
\* other before the App renders again, the list reflects both: it has one
\* record more for each add and one less for each delete, no record with a
\* deleted id, and the edited record holds the edit.
Count(kind, m1, m2) ==
    (IF m1.kind = kind THEN 1 ELSE 0) + (IF m2.kind = kind THEN 1 ELSE 0)

Reflected(m, recs) ==
    CASE m.kind = "add" -> \E i \in 1..Len(recs) : HoldsData(recs[i], m.data)
      [] m.kind = "edit" ->
            \E i \in 1..Len(recs) :
                recs[i].id = m.data.id /\ HoldsData(recs[i], m.data)
      [] m.kind = "delete" -> m.id \notin Ids(recs)

C28_BothMutationsKept ==
    [][ ops' = ops + 2 =>
          \A m1, m2 \in Mutations(records) : \A later \in {0, 1} :
              RunTwoHandlers(m1, m2, later) =>
                  /\ Len(records') = Len(records) + Count("add", m1, m2)
                                                  - Count("delete", m1, m2)
                  /\ Reflected(m1, records')
                  /\ Reflected(m2, records') ]_vars

====
